---- MODULE Spec2Model ----
(***************************************************************************)
(* Halogen-Go-Lambda: the "resolve latest archive and serve it" request    *)
(* pipeline.  One invocation is modelled from entry to return; every call  *)
(* to the record store (DynamoDB), the object store (S3) and the zip       *)
(* writer is one step, which the environment may let succeed or fail.      *)
(*                                                                         *)
(* Strings that the code inspects (keys, hashes, timestamps) are sequences *)
(* of one-character strings; message texts are sequences of words; object  *)
(* bodies are sequences of bytes.                                          *)
(***************************************************************************)
EXTENDS Integers, Sequences, FiniteSets, TLC

\* ------------------------------------------------------------------ bounds
MaxItems == 3
MaxObjects == 3

\* ------------------------------------------------------- program constants
StatusOK == 200
StatusMethodNotAllowed == 405
StatusInternalServerError == 500
MaxKeys == 1000

\* ---------------------------------------------------------------- strings
Min(a, b) == IF a < b THEN a ELSE b

Range(s) == {s[i] : i \in 1..Len(s)}

\* Byte value of the characters that occur in the strings compared bytewise.
Code ==
    [c \in {"+", "-", ".", "/", "0", "1", "2", "3", "4", "5", "6", "7", "8",
            "9", ":", "T", "Z", "a", "b", "c", "d", "i", "p", "x", "y", "z"} |->
        CASE c = "+" -> 43 [] c = "-" -> 45 [] c = "." -> 46 [] c = "/" -> 47
          [] c = "0" -> 48 [] c = "1" -> 49 [] c = "2" -> 50 [] c = "3" -> 51
          [] c = "4" -> 52 [] c = "5" -> 53 [] c = "6" -> 54 [] c = "7" -> 55
          [] c = "8" -> 56 [] c = "9" -> 57 [] c = ":" -> 58 [] c = "T" -> 84
          [] c = "Z" -> 90 [] c = "a" -> 97 [] c = "b" -> 98 [] c = "c" -> 99
          [] c = "d" -> 100 [] c = "i" -> 105 [] c = "p" -> 112
          [] c = "x" -> 120 [] c = "y" -> 121 [] c = "z" -> 122]

\* Go's > on strings: bytewise lexicographic order.
StringGreater(a, b) ==
    \E k \in 1..Len(a) :
        /\ \A j \in 1..(k - 1) : j <= Len(b) /\ a[j] = b[j]
        /\ \/ k > Len(b)
           \/ k <= Len(b) /\ Code[a[k]] > Code[b[k]]

\* strings.HasPrefix
HasPrefix(s, prefix) ==
    /\ Len(s) >= Len(prefix)
    /\ SubSeq(s, 1, Len(prefix)) = prefix

\* s ends with suffix.
SuffixAt(s, suffix) ==
    /\ Len(s) >= Len(suffix)
    /\ SubSeq(s, Len(s) - Len(suffix) + 1, Len(s)) = suffix

\* strings.HasSuffix
HasSuffix(s, suffix) == SuffixAt(s, suffix)

\* strings.TrimPrefix: s without the leading prefix, s itself when it has none
TrimPrefix(s, prefix) ==
    IF HasPrefix(s, prefix) THEN SubSeq(s, Len(prefix) + 1, Len(s)) ELSE s

\* A word sequence occurs contiguously in a message text.
Contains(text, words) ==
    \E i \in 0..(Len(text) - Len(words)) :
        SubSeq(text, i + 1, i + Len(words)) = words

\* -------------------------------------------------------------------- time
Digits == {"0", "1", "2", "3", "4", "5", "6", "7", "8", "9"}

DigitVal(c) == Code[c] - 48

IsLeap(y) == (y % 4 = 0 /\ y % 100 # 0) \/ y % 400 = 0

DaysIn(m, y) ==
    CASE m = 2 -> IF IsLeap(y) THEN 29 ELSE 28
      [] m \in {4, 6, 9, 11} -> 30
      [] OTHER -> 31

\* Days between 0000-03-01 and the civil date y-m-d (proleptic Gregorian).
DaysFromCivil(y, m, d) ==
    LET yy == IF m <= 2 THEN y - 1 ELSE y
        era == yy \div 400
        yoe == yy - era * 400
        mp == (m + 9) % 12
        doy == (153 * mp + 2) \div 5 + d - 1
    IN era * 146097 + yoe * 365 + yoe \div 4 - yoe \div 100 + doy

\* The zero time.Time: 0001-01-01T00:00:00Z.
ZeroTime == <<DaysFromCivil(1, 1, 1), 0, 0>>

Pow10(n) == IF n = 0 THEN 1 ELSE
            IF n = 1 THEN 10 ELSE
            IF n = 2 THEN 100 ELSE
            IF n = 3 THEN 1000 ELSE
            IF n = 4 THEN 10000 ELSE
            IF n = 5 THEN 100000 ELSE
            IF n = 6 THEN 1000000 ELSE
            IF n = 7 THEN 10000000 ELSE 100000000

\* time.Parse(time.RFC3339, s): [t |-> the instant <<day, second of day,
\* nanosecond>> in UTC, ok |-> TRUE], or the zero time and ok = FALSE when s is
\* not YYYY-MM-DDThh:mm:ss[.f](Z|+hh:mm|-hh:mm) with every field in range.
TimeParse(s) ==
    LET n == Len(s)
        Num2(i) == DigitVal(s[i]) * 10 + DigitVal(s[i + 1])
        fixedOk ==
            /\ n >= 20
            /\ \A i \in {1, 2, 3, 4, 6, 7, 9, 10, 12, 13, 15, 16, 18, 19} :
                   s[i] \in Digits
            /\ s[5] = "-" /\ s[8] = "-" /\ s[11] = "T"
            /\ s[14] = ":" /\ s[17] = ":"
        fracLen ==
            IF s[20] = "."
            THEN Cardinality({k \in 1..(n - 20) :
                                 \A j \in 1..k : s[20 + j] \in Digits})
            ELSE 0
        z == IF s[20] = "." THEN 21 + fracLen ELSE 20
        fracOk == s[20] = "." => fracLen \in 1..9
        zoneOk ==
            /\ z <= n
            /\ \/ s[z] = "Z" /\ n = z
               \/ /\ s[z] \in {"+", "-"}
                  /\ n = z + 5
                  /\ \A i \in {z + 1, z + 2, z + 4, z + 5} : s[i] \in Digits
                  /\ s[z + 3] = ":"
                  /\ Num2(z + 1) <= 23 /\ Num2(z + 4) <= 59
        year == DigitVal(s[1]) * 1000 + DigitVal(s[2]) * 100
                  + DigitVal(s[3]) * 10 + DigitVal(s[4])
        month == Num2(6)
        day == Num2(9)
        rangeOk ==
            /\ month \in 1..12
            /\ day >= 1 /\ day <= DaysIn(month, year)
            /\ Num2(12) <= 23 /\ Num2(15) <= 59 /\ Num2(18) <= 59
        offset ==
            IF s[z] = "Z" THEN 0
            ELSE (IF s[z] = "-" THEN -1 ELSE 1)
                   * (Num2(z + 1) * 3600 + Num2(z + 4) * 60)
        nanos ==
            IF fracLen = 0 THEN 0
            ELSE LET Digit(j) == DigitVal(s[20 + j]) * Pow10(9 - j)
                     Sum[j \in 0..fracLen] ==
                         IF j = 0 THEN 0 ELSE Sum[j - 1] + Digit(j)
                 IN Sum[fracLen]
        local == Num2(12) * 3600 + Num2(15) * 60 + Num2(18) - offset
        shift == IF local < 0 THEN -1 ELSE IF local >= 86400 THEN 1 ELSE 0
    IN IF fixedOk /\ fracOk /\ zoneOk /\ rangeOk
       THEN [t |-> <<DaysFromCivil(year, month, day) + shift,
                     local - shift * 86400, nanos>>,
             ok |-> TRUE]
       ELSE [t |-> ZeroTime, ok |-> FALSE]

\* time.Time.After on instants.
After(t, u) ==
    \/ t[1] > u[1]
    \/ t[1] = u[1] /\ t[2] > u[2]
    \/ t[1] = u[1] /\ t[2] = u[2] /\ t[3] > u[3]


\* ------------------------------------------------ the stores' possible data
Slash == <<"/">>
DotZip == <<".", "z", "i", "p">>

HashAB == <<"a", "b">>
HashCD == <<"c", "d">>

\* An instant of the object store's clock, as time.Time.
Day(n) == <<n, 0, 0>>

\* s3.Object: Key, LastModified, and the bytes GetObject returns for the key.
ObjectPool ==
    { [Key |-> HashAB \o Slash, LastModified |-> Day(1), Body |-> <<>>],
      [Key |-> HashAB \o Slash \o <<"x">> \o DotZip, LastModified |-> Day(3),
       Body |-> <<80, 75>>],
      [Key |-> HashAB \o Slash \o <<"y">>, LastModified |-> Day(2),
       Body |-> <<7>>],
      [Key |-> HashCD \o Slash \o <<"y">>, LastModified |-> Day(3),
       Body |-> <<9>>] }

Jan1 == <<"2", "0", "2", "4", "-", "0", "1", "-", "0", "1", "T">>
Jan2 == <<"2", "0", "2", "4", "-", "0", "1", "-", "0", "2", "T">>
Jan1Bad == <<"2", "0", "2", "4", "-", "1", "3", "-", "0", "1", "T">>
ZeroMinSec == <<":", "0", "0", ":", "0", "0">>
PlusNine == <<"+", "0", "9", ":", "0", "0">>

\* "2024-01-01T10:00:00+09:00", the instant 01:00 UTC
Ts10Plus9 == Jan1 \o <<"1", "0">> \o ZeroMinSec \o PlusNine
\* "2024-01-01T05:00:00Z"
Ts05Z == Jan1 \o <<"0", "5">> \o ZeroMinSec \o <<"Z">>
\* "2024-01-01T14:00:00.0+09:00", the same instant as Ts05Z
Ts14Plus9 == Jan1 \o <<"1", "4">> \o ZeroMinSec \o <<".", "0">> \o PlusNine
\* "2024-01-02T00:30:00+09:00", the instant 15:30 UTC of January 1
Ts0030Plus9 ==
    Jan2 \o <<"0", "0", ":", "3", "0", ":", "0", "0">> \o PlusNine
\* "2024-13-01T05:00:00Z", which time.Parse rejects
TsBad == Jan1Bad \o <<"0", "5">> \o ZeroMinSec \o <<"Z">>

\* A DynamoDB attribute value: a string (S) or a number (N).
AttrS(chars) == [S |-> chars, isS |-> TRUE]
AttrN(chars) == [S |-> <<>>, isS |-> FALSE]

\* A scanned item: its attributes hash, filename and timestamp.
Row(h, f, t) == [hash |-> h, filename |-> f, timestamp |-> t]

RowPool ==
    { Row(AttrS(HashAB), AttrS(<<"x">>), AttrS(Ts10Plus9)),
      Row(AttrS(HashCD), AttrS(<<"y">>), AttrS(Ts05Z)),
      Row(AttrS(HashAB), AttrS(<<"z">>), AttrS(Ts14Plus9)),
      Row(AttrS(HashAB), AttrS(<<"d">>), AttrS(Ts0030Plus9)),
      Row(AttrS(HashCD), AttrS(<<"b">>), AttrS(TsBad)),
      Row(AttrS(HashCD), AttrS(<<"c">>), AttrN(<<"5">>)) }

\* The sequences of at most n distinct members of a pool.
InjectiveSeqs(pool, n) ==
    UNION { { s \in [1..k -> pool] : \A a, b \in 1..k : a # b => s[a] # s[b] }
            : k \in 0..n }

\* What a Scan of the table can return, in every order.
Tables == InjectiveSeqs(RowPool, MaxItems)

\* What the bucket can hold, in every listing order (keys are unique).
Buckets == InjectiveSeqs(ObjectPool, MaxObjects)

\* The error texts the AWS SDK, the body reader and the zip writer can raise.
UpstreamErrors == { <<"RequestError:", "timeout">> }

Methods == {"GET", "POST", "get"}
\* The environment variable bucketName: unset, set to "", set to a name.
Unset == [set |-> FALSE, value |-> ""]
Deployed == [set |-> TRUE, value |-> "backoffice-script"]
BucketSettings == { Unset, [set |-> TRUE, value |-> ""], Deployed }
Prefixes == { <<>>, HashAB \o Slash, HashCD \o Slash }

\* The invocations: the three deployed handlers, and the two library
\* functions called on their own.
Ops == {"direct", "zipall", "hashfolder", "lookup", "fetchzip"}

\* ------------------------------------------------------------------- state
VARIABLES
    op,         \* which entry point this invocation runs
    method,     \* req.HTTPMethod
    bucketEnv,  \* the value of the environment variable bucketName
    prefix,     \* fetchAndZipObjects' prefix argument
    pc,         \* the position in the code
    scanned,    \* result.Items as Scan returned them
    items,      \* the local slice items
    bucket,     \* the bucket's objects, as the object store lists them
    contents,   \* listOutput.Contents
    i,          \* the index of the range loop over listOutput.Contents
    pair,       \* what GetLatestHashFilePair returned
    fileKey,    \* the key chosen for ReadZipFileFromS3
    data,       \* the bytes read from the object store
    zip,        \* the zip writer and its buffer
    ret,        \* what the invocation returned
    calls,      \* history: the calls made to the stores, in order
    envRead,    \* history: whether os.Getenv was called
    failure     \* history: the step that failed, and its error text

vars == <<op, method, bucketEnv, prefix, pc, scanned, items, bucket,
          contents, i, pair, fileKey, data, zip, ret, calls, envRead,
          failure>>

\* A nil error.
Nil == <<>>

NoRet == [kind |-> "none"]
NoPair == [returned |-> FALSE, hash |-> <<>>, fileName |-> <<>>, err |-> Nil]
NoFailure == [step |-> "none", err |-> <<>>, ncalls |-> 0]
EmptyArchive == [entries |-> <<>>, closed |-> FALSE]

EntryPoint(o) ==
    CASE o = "direct" -> "HandlerV1"
      [] o = "zipall" -> "HandlerV2"
      [] o = "hashfolder" -> "HandlerV3"
      [] o = "lookup" -> "LG_NewSession"
      [] o = "fetchzip" -> "FZ_NewSession"

Init ==
    /\ op \in Ops
    /\ method \in Methods
    /\ bucketEnv \in BucketSettings
    /\ prefix \in Prefixes
    /\ op \in {"direct", "zipall", "hashfolder"} => prefix = <<>>
    /\ op \in {"lookup", "fetchzip"} => method = "GET"
    /\ op \in {"lookup", "fetchzip"} => bucketEnv = Deployed
    /\ pc = EntryPoint(op)
    /\ scanned = <<>>
    /\ items = <<>>
    /\ bucket = <<>>
    /\ contents = <<>>
    /\ i = 1
    /\ pair = NoPair
    /\ fileKey = <<>>
    /\ data = <<>>
    /\ zip = EmptyArchive
    /\ ret = NoRet
    /\ calls = <<>>
    /\ envRead = FALSE
    /\ failure = NoFailure

\* --------------------------------------------------------------- responses
Text(words) == [kind |-> "text", text |-> words]

\* string(data): the bytes themselves.
Raw(bytes) == [kind |-> "raw", bytes |-> bytes]

\* base64.StdEncoding.EncodeToString(payload)
Base64(payload) == [kind |-> "base64", of |-> payload]

NoHeaders == <<>>

\* fmt.Sprintf("attachment; filename=\"%s\"", name)
ContentDisposition(name) ==
    <<"attachment;", " ", "filename=", "\"">> \o name \o <<"\"">>

ZipHeaders(name) ==
    [h \in {"Content-Type", "Content-Disposition"} |->
        IF h = "Content-Type" THEN <<"application/zip">>
        ELSE ContentDisposition(name)]

\* &events.APIGatewayProxyResponse{...}, nil
Response(status, body, headers, isBase64) ==
    [kind |-> "response",
     StatusCode |-> status,
     Body |-> body,
     Headers |-> headers,
     IsBase64Encoded |-> isBase64,
     err |-> Nil]

\* os.Getenv: the value, "" when the variable is not set.
Getenv(e) == IF e.set THEN e.value ELSE ""

Call(name) == calls' = Append(calls, [api |-> name, key |-> <<>>])

CallKey(name, key) == calls' = Append(calls, [api |-> name, key |-> key])

Failed(step, e, n) == failure' = [step |-> step, err |-> e, ncalls |-> n]

\* ------------------------------------------------------------------ sorting
Permute(seq, f) == [k \in 1..Len(seq) |-> seq[f[k]]]

\* sort.Slice(seq, less): every arrangement of seq that less leaves in order
\* (the sort is not stable: equal elements may come out in either order).
\* less[<<x, y>>] tells whether x must come before y.
SortSlice(seq, less) ==
    { q \in { Permute(seq, f) : f \in Permutations(1..Len(seq)) } :
        \A a, b \in 1..Len(seq) : a < b => ~less[<<q[b], q[a]>>] }

Pairs(seq) == Range(seq) \X Range(seq)

\* ---------------------------------------------------------------- handlers
inputs == <<op, method, bucketEnv>>
locals == <<scanned, items, bucket, contents, i, pair, fileKey, data, zip>>

Return(value) ==
    /\ ret' = value
    /\ pc' = "done"

MethodNotAllowed ==
    Response(StatusMethodNotAllowed, Text(<<"Method", "not", "allowed">>),
             NoHeaders, FALSE)

BucketNotSet ==
    Response(StatusInternalServerError,
             Text(<<"S3", "bucket", "name", "is", "not", "set">>),
             NoHeaders, FALSE)

InternalError(words) ==
    Response(StatusInternalServerError, Text(words), NoHeaders, FALSE)

\* The switch on req.HTTPMethod, and a mutant that also serves other methods.
IsGet_Any(m) == TRUE

IsGet(m) == m = "GET"

\* Handler, dispatching GET to GetZipFileFromS3.
HandlerV1 ==
    /\ pc = "HandlerV1"
    /\ IF IsGet(method)
       THEN pc' = "GetZipFileFromS3" /\ UNCHANGED ret
       ELSE Return(MethodNotAllowed)
    /\ UNCHANGED <<inputs, prefix, locals, calls, envRead, failure>>

\* Handler, dispatching GET to GetLatestHashFilePairAndZip.
HandlerV2 ==
    /\ pc = "HandlerV2"
    /\ IF IsGet(method)
       THEN pc' = "GetLatestHashFilePairAndZip" /\ UNCHANGED ret
       ELSE Return(MethodNotAllowed)
    /\ UNCHANGED <<inputs, prefix, locals, calls, envRead, failure>>

\* ------------------------------------------- strategy (a): direct-latest
\* The test bucketName == "", and a mutant that accepts the empty setting.
BucketUnset_Never(name) == FALSE

BucketUnset(name) == name = ""

\* GetZipFileFromS3, to its call of GetLatestFileKeyFromS3.
GetZipFileFromS3 ==
    /\ pc = "GetZipFileFromS3"
    /\ envRead' = TRUE
    /\ IF BucketUnset(Getenv(bucketEnv))
       THEN Return(BucketNotSet)
       ELSE pc' = "GLFK_NewSession" /\ UNCHANGED ret
    /\ UNCHANGED <<inputs, prefix, locals, calls, failure>>

\* GetZipFileFromS3's branch for an error of GetLatestFileKeyFromS3.
GetZipFileFromS3_OnKeyError(err) ==
    Return(InternalError(
        <<"Error", "getting", "the", "latest", "file", "from", "S3:">> \o err))

\* GetZipFileFromS3's branch for an error of ReadZipFileFromS3.
GetZipFileFromS3_OnReadError(err) ==
    Return(InternalError(
        <<"Error", "reading", "file", "from", "S3:">> \o err))

\* GetLatestFileKeyFromS3: session.NewSession.
GLFK_NewSession ==
    /\ pc = "GLFK_NewSession"
    /\ Call("session.NewSession")
    /\ \/ /\ pc' = "GLFK_ListObjectsV2"
          /\ UNCHANGED <<ret, failure>>
       \/ \E e \in UpstreamErrors :
            /\ Failed("NewSession", e, Len(calls) + 1)
            /\ GetZipFileFromS3_OnKeyError(
                   <<"failed", "to", "create", "AWS", "session:">> \o e)
    /\ UNCHANGED <<inputs, prefix, locals, envRead>>

\* s3.ListObjectsV2 with a prefix: one page of at most maxKeys objects.
ListObjectsV2(objects, pfx, maxKeys) ==
    LET under == SelectSeq(objects, LAMBDA o : HasPrefix(o.Key, pfx))
    IN SubSeq(under, 1, Min(Len(under), maxKeys))

\* GetLatestFileKeyFromS3: svc.ListObjectsV2 of the whole bucket.
GLFK_ListObjectsV2 ==
    /\ pc = "GLFK_ListObjectsV2"
    /\ Call("s3.ListObjectsV2")
    /\ \/ \E b \in Buckets :
            /\ bucket' = b
            /\ contents' = ListObjectsV2(b, <<>>, MaxKeys)
            /\ pc' = "GLFK_Return"
            /\ UNCHANGED <<ret, failure>>
       \/ \E e \in UpstreamErrors :
            /\ Failed("ListObjectsV2", e, Len(calls) + 1)
            /\ GetZipFileFromS3_OnKeyError(
                   <<"failed", "to", "list", "objects", "in", "S3",
                     "bucket:">> \o e)
            /\ UNCHANGED <<bucket, contents>>
    /\ UNCHANGED <<inputs, prefix, scanned, items, i, pair, fileKey, data,
                   zip, envRead>>

\* The less function of GetLatestFileKeyFromS3's sort, and a mutant of it
\* that sorts ascending.
NewerObject_Ascending(a, b) == After(b.LastModified, a.LastModified)

NewerObject(a, b) == After(a.LastModified, b.LastModified)

\* GetLatestFileKeyFromS3: the sort, the test for an empty listing, the return.
GLFK_Return ==
    /\ pc = "GLFK_Return"
    /\ \E sorted \in SortSlice(contents,
                               [p \in Pairs(contents) |->
                                   NewerObject(p[1], p[2])]) :
         /\ contents' = sorted
         /\ IF Len(sorted) = 0
            THEN /\ Failed("EmptyBucket",
                           <<"no", "objects", "found", "in", "bucket">>,
                           Len(calls))
                 /\ GetZipFileFromS3_OnKeyError(
                        <<"no", "objects", "found", "in", "bucket">>)
                 /\ UNCHANGED fileKey
            ELSE /\ fileKey' = sorted[1].Key
                 /\ pc' = "RZ_NewSession"
                 /\ UNCHANGED <<ret, failure>>
    /\ UNCHANGED <<inputs, prefix, scanned, items, bucket, i, pair, data,
                   zip, calls, envRead>>

\* The bytes the object store holds for a key.
BodyOf(objects, key) ==
    (CHOOSE o \in Range(objects) : o.Key = key).Body

\* GetZipFileFromS3: the 200 response with the object's bytes.
GetZipFileFromS3_Return ==
    /\ pc = "GetZipFileFromS3_Return"
    /\ Return(Response(StatusOK, Raw(data), ZipHeaders(fileKey), TRUE))
    /\ UNCHANGED <<inputs, prefix, locals, calls, envRead, failure>>

\* ----------------------------------------------------- ReadZipFileFromS3
\* ReadZipFileFromS3's error return, taken by the caller's error branch.
HashFolder_OnReadError(err) ==
    Return(InternalError(
        <<"Error", "reading", "file", "from", "S3:">> \o err))

ReadZipFileFromS3_Raise(err) ==
    IF op = "direct"
    THEN GetZipFileFromS3_OnReadError(err)
    ELSE HashFolder_OnReadError(err)

\* ReadZipFileFromS3: session.NewSession.
RZ_NewSession ==
    /\ pc = "RZ_NewSession"
    /\ Call("session.NewSession")
    /\ \/ /\ pc' = "RZ_GetObject"
          /\ UNCHANGED <<ret, failure>>
       \/ \E e \in UpstreamErrors :
            /\ Failed("NewSession", e, Len(calls) + 1)
            /\ ReadZipFileFromS3_Raise(
                   <<"failed", "to", "create", "AWS", "session:">> \o e)
    /\ UNCHANGED <<inputs, prefix, locals, envRead>>

\* ReadZipFileFromS3: svc.GetObject.
RZ_GetObject ==
    /\ pc = "RZ_GetObject"
    /\ CallKey("s3.GetObject", fileKey)
    /\ \/ /\ pc' = "RZ_ReadAll"
          /\ UNCHANGED <<ret, failure>>
       \/ \E e \in UpstreamErrors :
            /\ Failed("GetObject", e, Len(calls) + 1)
            /\ ReadZipFileFromS3_Raise(
                   <<"failed", "to", "get", "object", "from", "S3:">> \o e)
    /\ UNCHANGED <<inputs, prefix, locals, envRead>>

\* ReadZipFileFromS3: io.ReadAll of the body, and the return of the bytes.
RZ_ReadAll ==
    /\ pc = "RZ_ReadAll"
    /\ Call("s3.ReadBody")
    /\ \/ /\ data' = BodyOf(bucket, fileKey)
          /\ pc' = IF op = "direct" THEN "GetZipFileFromS3_Return"
                   ELSE "HashFolder_Return"
          /\ UNCHANGED <<ret, failure>>
       \/ \E e \in UpstreamErrors :
            /\ Failed("ReadAll", e, Len(calls) + 1)
            /\ ReadZipFileFromS3_Raise(
                   <<"failed", "to", "read", "object", "body:">> \o e)
            /\ UNCHANGED data
    /\ UNCHANGED <<inputs, prefix, scanned, items, bucket, contents, i, pair,
                   fileKey, zip, envRead>>

\* --------------------------------------------------- GetLatestHashFilePair
Item(h, f, t) == [Hash |-> h, Filename |-> f, Timestamp |-> t]

NoItems == <<"no", "items", "found", "in", "DynamoDB", "table">>

\* The test for an empty scan result, and a mutant that never finds it empty.
ScanIsEmpty_Never(rows) == FALSE

ScanIsEmpty(rows) == Len(rows) = 0

\* dynamodbattribute.UnmarshalListOfMaps into []Item: a string field takes a
\* string attribute only.
UnmarshalOk(rows) ==
    \A k \in 1..Len(rows) :
        rows[k].hash.isS /\ rows[k].filename.isS /\ rows[k].timestamp.isS

UnmarshalListOfMaps(rows) ==
    [k \in 1..Len(rows) |->
        Item(rows[k].hash.S, rows[k].filename.S, rows[k].timestamp.S)]

UnmarshalTypeError ==
    <<"UnmarshalTypeError:", "cannot", "unmarshal", "number", "into", "Go",
      "value", "of", "type", "string">>

\* The less function of the sort: ti.After(tj) on the parsed timestamps, the
\* parse error dropped.  A mutant sorts in ascending order.
LaterItem_Ascending(a, b) ==
    After(TimeParse(b.Timestamp).t, TimeParse(a.Timestamp).t)

LaterItem(a, b) == After(TimeParse(a.Timestamp).t, TimeParse(b.Timestamp).t)

\* GetLatestHashFilePairAndZip's branch for an error of GetLatestHashFilePair.
GetLatestHashFilePairAndZip_OnHashError(err) ==
    Return(InternalError(
        <<"Error", "fetching", "latest", "hash", "from", "DynamoDB:">>
            \o err))

HashFolder_OnHashError(err) ==
    Return(InternalError(
        <<"Error", "fetching", "latest", "hash", "from", "DynamoDB:">>
            \o err))

GetLatestHashFilePair_Raise(err) ==
    /\ pair' = [returned |-> TRUE, hash |-> <<>>, fileName |-> <<>>,
                err |-> err]
    /\ IF op = "zipall"
       THEN GetLatestHashFilePairAndZip_OnHashError(err)
       ELSE HashFolder_OnHashError(err)

\* GetLatestHashFilePair: session.NewSession.
GLHFP_NewSession ==
    /\ pc = "GLHFP_NewSession"
    /\ Call("session.NewSession")
    /\ \/ /\ pc' = "GLHFP_Scan"
          /\ UNCHANGED <<ret, failure, pair>>
       \/ \E e \in UpstreamErrors :
            /\ Failed("NewSession", e, Len(calls) + 1)
            /\ GetLatestHashFilePair_Raise(
                   <<"failed", "to", "create", "AWS", "session:">> \o e)
    /\ UNCHANGED <<inputs, prefix, scanned, items, bucket, contents, i,
                   fileKey, data, zip, envRead>>

\* GetLatestHashFilePair: svc.Scan of the table file-script.
GLHFP_Scan ==
    /\ pc = "GLHFP_Scan"
    /\ Call("dynamodb.Scan")
    /\ \/ \E t \in Tables :
            /\ scanned' = t
            /\ pc' = "GLHFP_Return"
            /\ UNCHANGED <<ret, failure, pair>>
       \/ \E e \in UpstreamErrors :
            /\ Failed("Scan", e, Len(calls) + 1)
            /\ GetLatestHashFilePair_Raise(
                   <<"failed", "to", "scan", "DynamoDB", "table:">> \o e)
            /\ UNCHANGED scanned
    /\ UNCHANGED <<inputs, prefix, items, bucket, contents, i, fileKey, data,
                   zip, envRead>>

\* GetLatestHashFilePair: the test for no items, the unmarshalling, the sort,
\* and the return of items[0]; indexing an empty slice panics.
GLHFP_Return ==
    /\ pc = "GLHFP_Return"
    /\ IF ScanIsEmpty(scanned)
       THEN /\ Failed("EmptyTable", NoItems, Len(calls))
            /\ GetLatestHashFilePair_Raise(NoItems)
            /\ UNCHANGED items
       ELSE IF ~UnmarshalOk(scanned)
       THEN /\ Failed("Unmarshal", UnmarshalTypeError, Len(calls))
            /\ GetLatestHashFilePair_Raise(
                   <<"failed", "to", "unmarshal", "DynamoDB", "scan",
                     "result:">> \o UnmarshalTypeError)
            /\ UNCHANGED items
       ELSE \E sorted \in SortSlice(UnmarshalListOfMaps(scanned),
                    [p \in Pairs(UnmarshalListOfMaps(scanned)) |->
                        LaterItem(p[1], p[2])]) :
            /\ items' = sorted
            /\ IF Len(sorted) = 0
               THEN /\ Return([kind |-> "panic"])
                    /\ UNCHANGED <<pair, failure>>
               ELSE /\ pair' = [returned |-> TRUE, hash |-> sorted[1].Hash,
                                fileName |-> sorted[1].Filename, err |-> Nil]
                    /\ pc' = IF op = "zipall" THEN "ZipNewWriter"
                             ELSE "HF_ListUnderPrefix"
                    /\ UNCHANGED <<ret, failure>>
    /\ UNCHANGED <<inputs, prefix, scanned, bucket, contents, i, fileKey,
                   data, zip, calls, envRead>>

\* ------------------------------------ strategy (b): zip-all-then-encode
\* GetLatestHashFilePairAndZip, to its call of GetLatestHashFilePair.
GetLatestHashFilePairAndZip ==
    /\ pc = "GetLatestHashFilePairAndZip"
    /\ envRead' = TRUE
    /\ IF BucketUnset(Getenv(bucketEnv))
       THEN Return(BucketNotSet)
       ELSE pc' = "GLHFP_NewSession" /\ UNCHANGED ret
    /\ UNCHANGED <<inputs, prefix, locals, calls, failure>>

\* GetLatestHashFilePairAndZip: zip.NewWriter(&buf), and the call of
\* fetchAndZipObjects(bucketName, "", zipWriter).
ZipNewWriter ==
    /\ pc = "ZipNewWriter"
    /\ zip' = EmptyArchive
    /\ prefix' = <<>>
    /\ i' = 1
    /\ pc' = "FZ_NewSession"
    /\ UNCHANGED <<inputs, scanned, items, bucket, contents, pair, fileKey,
                   data, ret, calls, envRead, failure>>

\* GetLatestHashFilePairAndZip's branch for an error of fetchAndZipObjects, and
\* a mutant that drops the error and goes on to close the archive.
GetLatestHashFilePairAndZip_OnZipError_Dropped(err) ==
    /\ pc' = "ZipClose"
    /\ UNCHANGED ret

GetLatestHashFilePairAndZip_OnZipError(err) ==
    Return(InternalError(
        <<"Error", "fetching", "and", "zipping", "objects:">> \o err))

\* GetLatestHashFilePairAndZip's branch for an error of zipWriter.Close.
GetLatestHashFilePairAndZip_OnCloseError(err) ==
    Return(InternalError(<<"Error", "closing", "zip", "writer:">> \o err))

\* fetchAndZipObjects' error return: to GetLatestHashFilePairAndZip, or to the
\* caller of the function on its own; and a mutant that swallows the error
\* and returns nil with whatever the archive holds.
FetchAndZipObjects_Raise_Swallowed(err) ==
    IF op = "zipall"
    THEN pc' = "ZipClose" /\ UNCHANGED ret
    ELSE Return([kind |-> "error", err |-> Nil])

FetchAndZipObjects_Raise(err) ==
    IF op = "zipall"
    THEN GetLatestHashFilePairAndZip_OnZipError(err)
    ELSE Return([kind |-> "error", err |-> err])

\* fetchAndZipObjects: session.NewSession.
FZ_NewSession ==
    /\ pc = "FZ_NewSession"
    /\ Call("session.NewSession")
    /\ \/ /\ pc' = "FZ_ListObjectsV2"
          /\ UNCHANGED <<ret, failure>>
       \/ \E e \in UpstreamErrors :
            /\ Failed("NewSession", e, Len(calls) + 1)
            /\ FetchAndZipObjects_Raise(
                   <<"failed", "to", "create", "AWS", "session:">> \o e)
    /\ UNCHANGED <<inputs, prefix, locals, envRead>>

\* fetchAndZipObjects: svc.ListObjectsV2 with Prefix and MaxKeys 1000.
FZ_ListObjectsV2 ==
    /\ pc = "FZ_ListObjectsV2"
    /\ Call("s3.ListObjectsV2")
    /\ \/ \E b \in Buckets :
            /\ bucket' = b
            /\ contents' = ListObjectsV2(b, prefix, MaxKeys)
            /\ pc' = "FZ_Range"
            /\ UNCHANGED <<ret, failure>>
       \/ \E e \in UpstreamErrors :
            /\ Failed("ListObjectsV2", e, Len(calls) + 1)
            /\ FetchAndZipObjects_Raise(
                   <<"failed", "to", "list", "objects", "in", "S3",
                     "bucket:">> \o e)
            /\ UNCHANGED <<bucket, contents>>
    /\ UNCHANGED <<inputs, prefix, scanned, items, i, pair, fileKey, data,
                   zip, envRead>>

\* The test that skips a directory marker, and a mutant that skips nothing.
IsDirectory_Never(key) == FALSE

IsDirectory(key) == HasSuffix(key, Slash)

\* The name of the zip entry for a key, and a mutant that keeps the prefix.
EntryName_WholeKey(key, pfx) == key

EntryName(key, pfx) == TrimPrefix(key, pfx)

\* fetchAndZipObjects: the head of the range loop, with the skip of a
\* directory marker, and the return of nil after the last object.
FZ_Range ==
    /\ pc = "FZ_Range"
    /\ IF i > Len(contents)
       THEN /\ IF op = "zipall"
               THEN pc' = "ZipClose" /\ UNCHANGED ret
               ELSE Return([kind |-> "error", err |-> Nil])
            /\ UNCHANGED i
       ELSE IF IsDirectory(contents[i].Key)
       THEN /\ i' = i + 1
            /\ UNCHANGED <<pc, ret>>
       ELSE /\ pc' = "FZ_GetObject"
            /\ UNCHANGED <<i, ret>>
    /\ UNCHANGED <<inputs, prefix, scanned, items, bucket, contents, pair,
                   fileKey, data, zip, calls, envRead, failure>>

\* fetchAndZipObjects: svc.GetObject of the current key.
FZ_GetObject ==
    /\ pc = "FZ_GetObject"
    /\ CallKey("s3.GetObject", contents[i].Key)
    /\ \/ /\ pc' = "FZ_Create"
          /\ UNCHANGED <<ret, failure>>
       \/ \E e \in UpstreamErrors :
            /\ Failed("GetObject", e, Len(calls) + 1)
            /\ FetchAndZipObjects_Raise(
                   <<"failed", "to", "get", "object">> \o contents[i].Key
                       \o <<"from", "S3:">> \o e)
    /\ UNCHANGED <<inputs, prefix, locals, envRead>>

\* fetchAndZipObjects: zipWriter.Create(fileName) opens a new, empty entry.
FZ_Create ==
    /\ pc = "FZ_Create"
    /\ Call("zip.Create")
    /\ \/ /\ zip' = [zip EXCEPT !.entries =
                        Append(@, [name |-> EntryName(contents[i].Key, prefix),
                                   body |-> <<>>])]
          /\ pc' = "FZ_Copy"
          /\ UNCHANGED <<ret, failure>>
       \/ \E e \in UpstreamErrors :
            /\ Failed("Create", e, Len(calls) + 1)
            /\ FetchAndZipObjects_Raise(
                   <<"failed", "to", "create", "file", "in", "zip:">> \o e)
            /\ UNCHANGED zip
    /\ UNCHANGED <<inputs, prefix, scanned, items, bucket, contents, i, pair,
                   fileKey, data, envRead>>

\* fetchAndZipObjects: io.Copy of the object's body into the open entry; a
\* failing copy leaves the bytes already written in the entry.
FZ_Copy ==
    /\ pc = "FZ_Copy"
    /\ Call("io.Copy")
    /\ LET body == BodyOf(bucket, contents[i].Key)
           last == Len(zip.entries)
       IN \/ /\ zip' = [zip EXCEPT !.entries[last].body = body]
             /\ i' = i + 1
             /\ pc' = "FZ_Range"
             /\ UNCHANGED <<ret, failure>>
          \/ \E e \in UpstreamErrors, n \in 0..Len(body) :
               /\ n < Len(body) \/ n = 0
               /\ zip' = [zip EXCEPT !.entries[last].body = SubSeq(body, 1, n)]
               /\ Failed("Copy", e, Len(calls) + 1)
               /\ FetchAndZipObjects_Raise(
                      <<"failed", "to", "copy", "object", "content", "to",
                        "zip:">> \o e)
               /\ UNCHANGED i
    /\ UNCHANGED <<inputs, prefix, scanned, items, bucket, contents, pair,
                   fileKey, data, envRead>>

\* zipWriter.Close writes the central directory, which completes the archive;
\* a mutant leaves the archive as it is.
Finalize_Skipped(z) == z

Finalize(z) == [z EXCEPT !.closed = TRUE]

\* GetLatestHashFilePairAndZip: the call of zipWriter.Close.
ZipClose ==
    /\ pc = "ZipClose"
    /\ Call("zip.Close")
    /\ \/ /\ zip' = Finalize(zip)
          /\ pc' = "GetLatestHashFilePairAndZip_Return"
          /\ UNCHANGED <<ret, failure>>
       \/ \E e \in UpstreamErrors :
            /\ Failed("Close", e, Len(calls) + 1)
            /\ GetLatestHashFilePairAndZip_OnCloseError(e)
            /\ UNCHANGED zip
    /\ UNCHANGED <<inputs, prefix, scanned, items, bucket, contents, i, pair,
                   fileKey, data, envRead>>

\* GetLatestHashFilePairAndZip: the base64 encoding of buf.Bytes() and the
\* 200 response; IsBase64Encoded is left at its zero value.
GetLatestHashFilePairAndZip_Return ==
    /\ pc = "GetLatestHashFilePairAndZip_Return"
    /\ Return(Response(StatusOK, Base64(zip),
                       ZipHeaders(pair.hash \o DotZip), FALSE))
    /\ UNCHANGED <<inputs, prefix, locals, calls, envRead, failure>>

\* ------------------------ GetLatestHashFilePair, the string-comparing one
\* The less function of its sort: items[i].Timestamp > items[j].Timestamp.
LaterItemLegacy(a, b) == StringGreater(a.Timestamp, b.Timestamp)

\* result == nil || result.Items == nil || len(result.Items) == 0
ScanIsEmptyLegacy(rows) == Len(rows) = 0

LookupReturn(h, f, err) ==
    /\ pair' = [returned |-> TRUE, hash |-> h, fileName |-> f, err |-> err]
    /\ Return([kind |-> "lookup", hash |-> h, fileName |-> f, err |-> err])

\* session.NewSession.
LG_NewSession ==
    /\ pc = "LG_NewSession"
    /\ Call("session.NewSession")
    /\ \/ /\ pc' = "LG_Scan"
          /\ UNCHANGED <<ret, failure, pair>>
       \/ \E e \in UpstreamErrors :
            /\ Failed("NewSession", e, Len(calls) + 1)
            /\ LookupReturn(<<>>, <<>>,
                   <<"failed", "to", "create", "AWS", "session:">> \o e)
    /\ UNCHANGED <<inputs, prefix, scanned, items, bucket, contents, i,
                   fileKey, data, zip, envRead>>

\* svc.Scan of the table file-script.
LG_Scan ==
    /\ pc = "LG_Scan"
    /\ Call("dynamodb.Scan")
    /\ \/ \E t \in Tables :
            /\ scanned' = t
            /\ pc' = "LG_Return"
            /\ UNCHANGED <<ret, failure, pair>>
       \/ \E e \in UpstreamErrors :
            /\ Failed("Scan", e, Len(calls) + 1)
            /\ LookupReturn(<<>>, <<>>,
                   <<"failed", "to", "scan", "DynamoDB", "table:">> \o e)
            /\ UNCHANGED scanned
    /\ UNCHANGED <<inputs, prefix, items, bucket, contents, i, fileKey, data,
                   zip, envRead>>

\* The test for no items, the copy of the attributes' S pointers (a nil
\* pointer panics), the sort, and the return of items[0].
LG_Return ==
    /\ pc = "LG_Return"
    /\ IF ScanIsEmptyLegacy(scanned)
       THEN /\ Failed("EmptyTable", NoItems, Len(calls))
            /\ LookupReturn(<<>>, <<>>, NoItems)
            /\ UNCHANGED items
       ELSE IF ~UnmarshalOk(scanned)
       THEN /\ Return([kind |-> "panic"])
            /\ UNCHANGED <<items, pair, failure>>
       ELSE \E sorted \in SortSlice(UnmarshalListOfMaps(scanned),
                    [p \in Pairs(UnmarshalListOfMaps(scanned)) |->
                        LaterItemLegacy(p[1], p[2])]) :
            /\ items' = sorted
            /\ IF Len(sorted) = 0
               THEN /\ Return([kind |-> "panic"])
                    /\ UNCHANGED <<pair, failure>>
               ELSE /\ LookupReturn(sorted[1].Hash, sorted[1].Filename, Nil)
                    /\ UNCHANGED failure
    /\ UNCHANGED <<inputs, prefix, scanned, bucket, contents, i, fileKey,
                   data, zip, calls, envRead>>

\* ------------------------------------- strategy (c): zip-by-hash-folder
\* Handler, dispatching GET to the zip-by-hash-folder pipeline.
HandlerV3 ==
    /\ pc = "HandlerV3"
    /\ IF method = "GET"
       THEN pc' = "HashFolder" /\ UNCHANGED ret
       ELSE Return(MethodNotAllowed)
    /\ UNCHANGED <<inputs, prefix, locals, calls, envRead, failure>>

\* The pipeline, to its lookup of the latest hash.
HashFolder ==
    /\ pc = "HashFolder"
    /\ envRead' = TRUE
    /\ IF Getenv(bucketEnv) = ""
       THEN Return(BucketNotSet)
       ELSE pc' = "GLHFP_NewSession" /\ UNCHANGED ret
    /\ UNCHANGED <<inputs, prefix, locals, calls, failure>>

\* The listing of the keys under the prefix "<hash>/".
HF_ListUnderPrefix ==
    /\ pc = "HF_ListUnderPrefix"
    /\ Call("s3.ListObjectsV2")
    /\ prefix' = pair.hash \o Slash
    /\ \/ \E b \in Buckets :
            /\ bucket' = b
            /\ contents' = ListObjectsV2(b, pair.hash \o Slash, MaxKeys)
            /\ pc' = "HF_Locate"
            /\ UNCHANGED <<ret, failure>>
       \/ \E e \in UpstreamErrors :
            /\ Failed("ListObjectsV2", e, Len(calls) + 1)
            /\ Return(InternalError(
                   <<"Error", "listing", "objects", "in", "S3:">> \o e))
            /\ UNCHANGED <<bucket, contents>>
    /\ UNCHANGED <<inputs, scanned, items, i, pair, fileKey, data, zip,
                   envRead>>

\* Whether a key names an archive, and a mutant that takes any key for one.
IsArchiveKey_Any(key) == TRUE

IsArchiveKey(key) == SuffixAt(key, DotZip)

NoZipFound == <<"no", "zip", "file", "found">>

\* The search for the key under the prefix that ends in ".zip".
HF_Locate ==
    /\ pc = "HF_Locate"
    /\ LET zips == SelectSeq(contents, LAMBDA o : IsArchiveKey(o.Key))
       IN IF Len(zips) = 0
          THEN /\ Failed("NoArchive", NoZipFound, Len(calls))
               /\ Return(InternalError(
                      NoZipFound \o <<"under">> \o prefix))
               /\ UNCHANGED fileKey
          ELSE /\ fileKey' = zips[1].Key
               /\ pc' = "RZ_NewSession"
               /\ UNCHANGED <<ret, failure>>
    /\ UNCHANGED <<inputs, prefix, scanned, items, bucket, contents, i, pair,
                   data, zip, calls, envRead>>

\* The 200 response with the base64 encoding of the archive's bytes.
HashFolder_Return ==
    /\ pc = "HashFolder_Return"
    /\ Return(Response(StatusOK, Base64(data),
                       ZipHeaders(pair.hash \o DotZip), FALSE))
    /\ UNCHANGED <<inputs, prefix, locals, calls, envRead, failure>>

\* ----------------------------------------------------------- specification
Next ==
    \/ HandlerV1
    \/ GetZipFileFromS3
    \/ GLFK_NewSession
    \/ GLFK_ListObjectsV2
    \/ GLFK_Return
    \/ RZ_NewSession
    \/ RZ_GetObject
    \/ RZ_ReadAll
    \/ GetZipFileFromS3_Return
    \/ HandlerV2
    \/ GetLatestHashFilePairAndZip
    \/ GLHFP_NewSession
    \/ GLHFP_Scan
    \/ GLHFP_Return
    \/ ZipNewWriter
    \/ FZ_NewSession
    \/ FZ_ListObjectsV2
    \/ FZ_Range
    \/ FZ_GetObject
    \/ FZ_Create
    \/ FZ_Copy
    \/ ZipClose
    \/ GetLatestHashFilePairAndZip_Return
    \/ LG_NewSession
    \/ LG_Scan
    \/ LG_Return
    \/ HandlerV3
    \/ HashFolder
    \/ HF_ListUnderPrefix
    \/ HF_Locate
    \/ HashFolder_Return

Spec == Init /\ [][Next]_vars

\* ------------------------------------------------------------------ claims
HandlerOps == {"direct", "zipall", "hashfolder"}

BucketIsSet == bucketEnv.set /\ bucketEnv.value # ""

IsResponse == pc = "done" /\ ret.kind = "response"

\* The positions in calls of the calls of an API.
CallsOf(api) == {k \in 1..Len(calls) : calls[k].api = api}

ObjectStoreApis == {"s3.ListObjectsV2", "s3.GetObject", "s3.ReadBody"}

NotAllowedWords == <<"Method", "not", "allowed">>
BucketNotSetWords == <<"bucket", "name", "is", "not", "set">>

\* C1: a request whose method is not exactly "GET" is answered with status 405
\* and the body "Method not allowed"; no call is made to either store and the
\* bucket setting is not read.
C1_NonGetIsMethodNotAllowed ==
    (op \in HandlerOps /\ method # "GET") =>
        /\ calls = <<>>
        /\ ~envRead
        /\ pc \in {EntryPoint(op), "done"}
        /\ pc = "done" =>
             /\ ret.kind = "response"
             /\ ret.StatusCode = 405
             /\ ret.Body = Text(NotAllowedWords)
             /\ ret.err = Nil

C1_Witness ==
    /\ op = "zipall"
    /\ method = "get"
    /\ pc = "done"
    /\ ret.StatusCode = 405

\* C2: on GET with the bucket setting absent or empty, every pipeline answers
\* with status 500 and a body containing "bucket name is not set", and makes
\* no call to either store.
C2_UnsetBucketIs500 ==
    (op \in HandlerOps /\ method = "GET" /\ ~BucketIsSet) =>
        /\ calls = <<>>
        /\ pc \in {EntryPoint(op), "GetZipFileFromS3",
                   "GetLatestHashFilePairAndZip", "HashFolder", "done"}
        /\ pc = "done" =>
             /\ ret.kind = "response"
             /\ ret.StatusCode = 500
             /\ ret.Body.kind = "text"
             /\ Contains(ret.Body.text, BucketNotSetWords)
             /\ ret.err = Nil

C2_Witness ==
    /\ op = "zipall"
    /\ method = "GET"
    /\ bucketEnv = Unset
    /\ pc = "done"
    /\ ret.StatusCode = 500

DistinctTimes(objects) ==
    \A a, b \in 1..Len(objects) :
        a # b => objects[a].LastModified # objects[b].LastModified

\* The object modified after every other one.
Newest(objects) ==
    CHOOSE o \in Range(objects) :
        \A other \in Range(objects) :
            other # o => After(o.LastModified, other.LastModified)

AttachmentOf(headers, name) ==
    /\ DOMAIN headers = {"Content-Type", "Content-Disposition"}
    /\ headers["Content-Type"] = <<"application/zip">>
    /\ headers["Content-Disposition"] =
           <<"attachment;", " ", "filename=", "\"">> \o name \o <<"\"">>

\* C3: direct-latest: on GET with the bucket set and every call succeeding,
\* for a non-empty listing with distinct last-modified times, in any order,
\* the response is 200 with the bytes of the most recently modified object,
\* its key as the download's file name, Content-Type application/zip and
\* isBase64Encoded true.
C3_DirectLatestServesNewest ==
    ( /\ op = "direct"
      /\ method = "GET"
      /\ BucketIsSet
      /\ pc = "done"
      /\ failure = NoFailure
      /\ Len(bucket) > 0
      /\ DistinctTimes(bucket) ) =>
        /\ ret.kind = "response"
        /\ ret.StatusCode = 200
        /\ ret.Body = [kind |-> "raw", bytes |-> Newest(bucket).Body]
        /\ AttachmentOf(ret.Headers, Newest(bucket).Key)
        /\ ret.IsBase64Encoded = TRUE
        /\ ret.err = Nil

C3_Witness ==
    /\ op = "direct"
    /\ IsResponse
    /\ ret.StatusCode = 200
    /\ Len(bucket) = MaxObjects
    /\ DistinctTimes(bucket)
    /\ bucket[1] # Newest(bucket)
    /\ fileKey = Newest(bucket).Key

\* Every timestamp parses as RFC3339 and no two are the same instant.
DistinctValidInstants(rows) ==
    /\ UnmarshalOk(rows)
    /\ \A k \in 1..Len(rows) : TimeParse(rows[k].timestamp.S).ok
    /\ \A a, b \in 1..Len(rows) :
           a # b => TimeParse(rows[a].timestamp.S).t
                      # TimeParse(rows[b].timestamp.S).t

\* The row whose timestamp is the latest instant.
LatestRow(rows) ==
    CHOOSE r \in Range(rows) :
        \A other \in Range(rows) :
            other # r => After(TimeParse(r.timestamp.S).t,
                               TimeParse(other.timestamp.S).t)

\* C4: for a non-empty set of records with distinct valid RFC3339 timestamps,
\* whatever their UTC offsets and the order of the scan, GetLatestHashFilePair
\* returns the hash and filename of the chronologically latest record.
C4_ReturnsChronologicallyLatest ==
    ( /\ pair.returned
      /\ pair.err = Nil
      /\ Len(scanned) > 0
      /\ DistinctValidInstants(scanned) ) =>
        /\ pair.hash = LatestRow(scanned).hash.S
        /\ pair.fileName = LatestRow(scanned).filename.S

\* The same of the GetLatestHashFilePair that parses the timestamps.
ParsingLookupReturnsLatest ==
    op # "lookup" => C4_ReturnsChronologicallyLatest

NoItemsWords == <<"no", "items", "found", "in", "DynamoDB", "table">>

\* The scan succeeded and returned no record.
ScanReturnedEmpty ==
    /\ CallsOf("dynamodb.Scan") # {}
    /\ failure.step # "Scan"
    /\ scanned = <<>>

\* C5: when the scan succeeds with zero records, GetLatestHashFilePair returns
\* the error "no items found in DynamoDB table" and does not index the empty
\* list (no panic); the zip-all pipeline answers 500 and makes no object-store
\* call afterwards.
C5_EmptyTableIsError ==
    ScanReturnedEmpty =>
        /\ pc \in {"GLHFP_Return", "LG_Return", "done"}
        /\ pc = "done" =>
             /\ ret.kind # "panic"
             /\ pair.returned
             /\ pair.err = NoItemsWords
             /\ pair.hash = <<>> /\ pair.fileName = <<>>
        /\ (pc = "done" /\ op = "zipall") =>
             /\ ret.kind = "response"
             /\ ret.StatusCode = 500
             /\ ret.Body.kind = "text"
             /\ Contains(ret.Body.text, NoItemsWords)
             /\ \A k \in 1..Len(calls) : calls[k].api \notin ObjectStoreApis

C5_Witness ==
    /\ op = "zipall"
    /\ pc = "done"
    /\ ScanReturnedEmpty
    /\ ret.StatusCode = 500

\* C6: whatever the prefix and the listing under it, no zip entry comes from a
\* key ending in "/" (such a key is skipped and not fetched), and every entry
\* name is a listed key with the prefix removed from its start.
C6_EntryNamesStripPrefixSkipDirectories ==
    op \in {"zipall", "fetchzip"} =>
        /\ \A k \in 1..Len(zip.entries) :
             \E j \in 1..Len(contents) :
                /\ ~SuffixAt(contents[j].Key, Slash)
                /\ prefix \o zip.entries[k].name = contents[j].Key
        /\ \A k \in CallsOf("s3.GetObject") : ~SuffixAt(calls[k].key, Slash)

C6_Witness ==
    /\ op = "fetchzip"
    /\ prefix = HashAB \o Slash
    /\ pc = "done"
    /\ ret.err = Nil
    /\ Len(zip.entries) = 2
    /\ \E j \in 1..Len(contents) : SuffixAt(contents[j].Key, Slash)

\* The entries of the archive of a listing: one per key that is no directory
\* marker, in the listing's order, named by the key without the prefix and
\* holding the object's bytes.
ExpectedEntries(listing, pfx) ==
    LET files == SelectSeq(listing, LAMBDA o : ~SuffixAt(o.Key, Slash))
    IN [k \in 1..Len(files) |->
          [name |-> SubSeq(files[k].Key, Len(pfx) + 1, Len(files[k].Key)),
           body |-> files[k].Body]]

\* fetchAndZipObjects returned nil.
FetchAndZipSucceeded ==
    \/ op = "fetchzip" /\ pc = "done" /\ ret.kind = "error" /\ ret.err = Nil
    \/ op = "zipall" /\ pc \in {"ZipClose",
                                "GetLatestHashFilePairAndZip_Return"}
    \/ op = "zipall" /\ pc = "done" /\ CallsOf("zip.Close") # {}

\* C7: when every list, get and write step succeeds, the archive holds exactly
\* one entry per listed non-directory object, named by the key with the prefix
\* stripped, holding that object's bytes, in the listing's order; and the
\* archive in a 200 response was closed before it was encoded.
C7_ArchiveRoundTrip ==
    /\ FetchAndZipSucceeded =>
         zip.entries = ExpectedEntries(contents, prefix)
    /\ (op = "zipall" /\ IsResponse /\ ret.StatusCode = 200) =>
         /\ ret.Body.kind = "base64"
         /\ ret.Body.of.closed
         /\ ret.Body.of.entries = ExpectedEntries(contents, prefix)

C7_Witness ==
    /\ op = "zipall"
    /\ IsResponse
    /\ ret.StatusCode = 200
    /\ Len(ret.Body.of.entries) = 2
    /\ Len(contents) = MaxObjects
    /\ ret.Body.of.entries[1].body # ret.Body.of.entries[2].body

Apis == [k \in 1..Len(calls) |-> calls[k].api]

DirectCalls ==
    <<"session.NewSession", "s3.ListObjectsV2", "session.NewSession",
      "s3.GetObject", "s3.ReadBody">>

\* C8: on GET, a failing step gives a 500 response whose body contains the
\* upstream error text, with a nil Go error, and no later step runs; 405 is
\* only the answer to a method other than GET, and 200 is answered only when
\* every step succeeded.
C8_FailureIs500 ==
    op \in HandlerOps =>
        /\ failure # NoFailure =>
             /\ method = "GET"
             /\ pc = "done"
             /\ ret.kind = "response"
             /\ ret.StatusCode = 500
             /\ ret.Body.kind = "text"
             /\ Contains(ret.Body.text, failure.err)
             /\ ret.err = Nil
             /\ Len(calls) = failure.ncalls
        /\ pc = "done" =>
             /\ ret.kind = "response"
             /\ ret.err = Nil
             /\ ret.StatusCode \in {200, 405, 500}
             /\ ret.StatusCode = 405 <=> method # "GET"
             /\ ret.StatusCode = 200 =>
                  /\ failure = NoFailure
                  /\ BucketIsSet
                  /\ op = "direct" => Apis = DirectCalls
                  /\ op = "zipall" =>
                       /\ SubSeq(Apis, 1, 4) =
                            <<"session.NewSession", "dynamodb.Scan",
                              "session.NewSession", "s3.ListObjectsV2">>
                       /\ Len(Apis) = 5 + 3 * Len(zip.entries)
                       /\ Apis[Len(Apis)] = "zip.Close"

C8_Witness ==
    /\ op = "zipall"
    /\ pc = "done"
    /\ failure.step = "Copy"
    /\ Len(zip.entries) = 2
    /\ ret.StatusCode = 500

\* No scanned row is later than r (an unparseable timestamp counts as the zero
\* time, as in the sort).
IsLatestRow(r) ==
    \A other \in Range(scanned) :
        ~After(TimeParse(other.timestamp.S).t, TimeParse(r.timestamp.S).t)

NoZipWords == <<"no", "zip", "file", "found">>

\* C10: zip-by-hash-folder: when the record store returns the latest hash H
\* and the bucket has no key under "H/" that ends in ".zip", the response is
\* 500 with a body containing "no zip file found".
C10_NoArchiveUnderHashFolder ==
    ( /\ op = "hashfolder"
      /\ pc = "done"
      /\ pair.returned
      /\ pair.err = Nil
      /\ CallsOf("s3.ListObjectsV2") # {}
      /\ failure.step # "ListObjectsV2"
      /\ ~\E o \in Range(bucket) :
            /\ Len(o.Key) >= Len(pair.hash) + 1
            /\ SubSeq(o.Key, 1, Len(pair.hash) + 1) = pair.hash \o Slash
            /\ SuffixAt(o.Key, DotZip) ) =>
        /\ ret.kind = "response"
        /\ ret.StatusCode = 500
        /\ ret.Body.kind = "text"
        /\ Contains(ret.Body.text, NoZipWords)

C10_Witness ==
    /\ op = "hashfolder"
    /\ pc = "done"
    /\ failure.step = "NoArchive"
    /\ pair.hash = HashCD
    /\ Len(contents) = 1
    /\ Len(bucket) = MaxObjects
    /\ ret.StatusCode = 500

\* The steps of fetchAndZipObjects' loop that fetch or write one object.
FetchOrWriteSteps == {"GetObject", "Create", "Copy"}

FetchOrWriteFailed ==
    /\ op \in {"zipall", "fetchzip"}
    /\ failure.step \in FetchOrWriteSteps

\* The keys of the s3.GetObject calls, in the order of the calls.
FetchedKeys ==
    LET gets == SelectSeq(calls, LAMBDA c : c.api = "s3.GetObject")
    IN [k \in 1..Len(gets) |-> gets[k].key]

\* The keys of a listing that are no directory markers, in its order.
FileKeys(listing) ==
    LET files == SelectSeq(listing, LAMBDA o : ~SuffixAt(o.Key, Slash))
    IN [k \in 1..Len(files) |-> files[k].Key]

\* b is a of which only a proper part was written (or nothing at all).
PartOf(b, a) ==
    /\ Len(b) <= Len(a)
    /\ b = SubSeq(a, 1, Len(b))
    /\ Len(b) < Len(a) \/ Len(b) = 0

\* C11: the archive assembler fails fast: when the fetch or a write of the
\* k-th listed object fails, fetchAndZipObjects returns an error at once (no
\* call follows the failed one), no object listed after the k-th is fetched or
\* entered in the archive, and the response is an error body: a 200 response
\* never carries an archive that lacks an object or holds a part of one.
C11_FailFastNoPartialArchive ==
    /\ FetchOrWriteFailed =>
         /\ pc = "done"
         /\ i \in 1..Len(contents)
         /\ ~SuffixAt(contents[i].Key, Slash)
         /\ Len(calls) = failure.ncalls
         /\ FetchedKeys = FileKeys(SubSeq(contents, 1, i))
         /\ LET before == ExpectedEntries(SubSeq(contents, 1, i - 1), prefix)
                n == Len(before)
            IN IF failure.step = "Copy"
               THEN /\ Len(zip.entries) = n + 1
                    /\ SubSeq(zip.entries, 1, n) = before
                    /\ zip.entries[n + 1].name =
                         SubSeq(contents[i].Key, Len(prefix) + 1,
                                Len(contents[i].Key))
                    /\ PartOf(zip.entries[n + 1].body, contents[i].Body)
               ELSE zip.entries = before
         /\ ~zip.closed
         /\ op = "fetchzip" =>
              /\ ret.kind = "error"
              /\ ret.err # Nil
              /\ Contains(ret.err, failure.err)
         /\ op = "zipall" =>
              /\ ret.kind = "response"
              /\ ret.StatusCode = 500
              /\ ret.Body.kind = "text"
              /\ Contains(ret.Body.text, failure.err)
    /\ (op = "zipall" /\ IsResponse /\ ret.StatusCode = 200) =>
         /\ failure = NoFailure
         /\ ret.Body.kind = "base64"
         /\ FetchedKeys = FileKeys(contents)
         /\ ret.Body.of.entries = ExpectedEntries(contents, prefix)

C11_Witness ==
    /\ op = "zipall"
    /\ pc = "done"
    /\ failure.step = "Copy"
    /\ i = 2
    /\ Len(contents) = MaxObjects
    /\ ~SuffixAt(contents[3].Key, Slash)
    /\ Len(zip.entries) = 2
    /\ Len(zip.entries[2].body) = 1
    /\ ret.StatusCode = 500

====
